---- MODULE Spec2Model ----
(***************************************************************************)
(* A model of monitoring/fail2ban_monitor.py: the Fail2banStats store, the *)
(* LogMonitor tailer thread, the periodic loop of main() and the signal    *)
(* handler installed by setup_signal_handlers, together with the external  *)
(* writer of the log file.                                                 *)
(***************************************************************************)
EXTENDS Integers, Sequences, FiniteSets, TLC

VARIABLES
    stats,          \* the Fail2banStats fields
    lock,           \* Fail2banStats.lock: "free", "tailer" or "main"
    lockFrame,      \* depth of the main-thread frame holding the lock (0: none)
    running,        \* LogMonitor.running
    last_position,  \* LogMonitor.last_position
    tpc,            \* position of the tailer thread in _monitor_log
    rpos,           \* offset of the file object the tailer has open
    cur,            \* the line / event the tailer is processing
    exists,         \* whether the log file exists
    file,           \* the log file: a sequence of bytes
    nextId,         \* number of lines the external writer has written so far
    rotations,      \* number of truncations / removals of the log so far
    readErrs,       \* number of I/O errors raised by reads of the log so far
    signals,        \* number of signals delivered so far
    mstack,         \* call stack of the main thread: main() and handler frames
    pend,           \* exception propagating in the main thread
    proc,           \* "running", "exited" (status 0) or "crashed"
    summary,        \* value returned by the last get_summary
    hist            \* observations for the properties

vars == <<stats, lock, lockFrame, running, last_position, tpc, rpos, cur,
          exists, file, nextId, rotations, readErrs, signals, mstack, pend,
          proc, summary, hist>>

----------------------------------------------------------------------------
(* Bounds of the model *)

MaxEvents == 3      \* record calls in a run of the store alone
MaxLines == 2       \* lines the external writer writes
MaxRotations == 1   \* truncations / removals of the log file
MaxReadErrors == 1  \* I/O errors raised while the lines of the log are read
MaxSignals == 1     \* signals delivered to the process
MaxPreLines == 1    \* lines in the log before the monitor starts

Jails == {"sshd", "nginx"}
IPs == {"1.2.3.4", "5.6.7.8"}
\* timestamps the recognisers match, 2024-MM-01 HH:mm:00,000: two in the same
\* hour, one in another hour, and one strptime rejects (month 13)
Timestamps == {[month |-> 1, hour |-> 10, minute |-> 0],
               [month |-> 1, hour |-> 10, minute |-> 30],
               [month |-> 1, hour |-> 11, minute |-> 0],
               [month |-> 13, hour |-> 10, minute |-> 0]}
Kinds == {"Ban", "Unban", "Found"}

----------------------------------------------------------------------------
(* Counter / defaultdict helpers: a mapping is a function whose DOMAIN is  *)
(* the set of keys present.                                                *)

Get(m, k, default) == IF k \in DOMAIN m THEN m[k] ELSE default

Put(m, k, v) == [x \in DOMAIN m \cup {k} |-> IF x = k THEN v ELSE m[x]]

EmptyMap == [x \in {} |-> 0]

RECURSIVE SumOver(_, _)
SumOver(m, keys) ==
    IF keys = {} THEN 0
    ELSE LET k == CHOOSE x \in keys : TRUE
         IN  m[k] + SumOver(m, keys \ {k})

SumValues(m) == SumOver(m, DOMAIN m)

NewJail == [bans |-> 0, unbans |-> 0, finds |-> 0]

----------------------------------------------------------------------------
(* Fail2banStats *)

NewStats ==
    [ban_count |-> 0, unban_count |-> 0, find_count |-> 0,
     banned_ips |-> EmptyMap, jail_stats |-> EmptyMap,
     hourly_stats |-> EmptyMap, ip_jail_map |-> EmptyMap]

\* datetime.strptime(timestamp, "%Y-%m-%d %H:%M:%S,%f"): ValueError or a date
ParseOk(timestamp) == timestamp.month \in 1..12

\* dt.strftime("%Y-%m-%d %H")
Hour(timestamp) == [month |-> timestamp.month, hour |-> timestamp.hour]

IncBanCount(s) == [s EXCEPT !.ban_count = @ + 1]

\* a mark of the address in place of a count of its bans
MarkBannedIp(s, ip) ==
    [s EXCEPT !.banned_ips = Put(@, ip, 1)]

IncBannedIp(s, ip) ==
    [s EXCEPT !.banned_ips = Put(@, ip, Get(@, ip, 0) + 1)]

IncJail(s, jail, field) ==
    [s EXCEPT !.jail_stats =
        Put(@, jail, [Get(@, jail, NewJail) EXCEPT ![field] = @ + 1])]

\* a ban that leaves the address without its jail
AddIpJailNone(s, ip, jail) == s

AddIpJail(s, ip, jail) ==
    [s EXCEPT !.ip_jail_map = Put(@, ip, Get(@, ip, {}) \cup {jail})]

\* a bucket counted whether or not the timestamp parses
BucketAlways(s, timestamp) ==
    [s EXCEPT !.hourly_stats =
        Put(@, Hour(timestamp), Get(@, Hour(timestamp), 0) + 1)]

BucketHour(s, timestamp) ==
    IF ParseOk(timestamp)
    THEN [s EXCEPT !.hourly_stats =
             Put(@, Hour(timestamp), Get(@, Hour(timestamp), 0) + 1)]
    ELSE s

\* record_ban without its count of the jail's bans
BanStepNoJail(k, s, ev) ==
    CASE k = 1 -> IncBanCount(s)
      [] k = 2 -> IncBannedIp(s, ev.ip)
      [] k = 3 -> s
      [] k = 4 -> AddIpJail(s, ev.ip, ev.jail)
      [] k = 5 -> BucketHour(s, ev.timestamp)

\* record_ban without its entry of ip_jail_map
BanStepNoMap(k, s, ev) ==
    CASE k = 1 -> IncBanCount(s)
      [] k = 2 -> IncBannedIp(s, ev.ip)
      [] k = 3 -> IncJail(s, ev.jail, "bans")
      [] k = 4 -> s
      [] k = 5 -> BucketHour(s, ev.timestamp)

\* the k-th statement of record_ban's locked block
BanStep(k, s, ev) ==
    CASE k = 1 -> IncBanCount(s)
      [] k = 2 -> IncBannedIp(s, ev.ip)
      [] k = 3 -> IncJail(s, ev.jail, "bans")
      [] k = 4 -> AddIpJail(s, ev.ip, ev.jail)
      [] k = 5 -> BucketHour(s, ev.timestamp)

\* an unban that takes back a ban of the address
UnbanStepForget(k, s, ev) ==
    CASE k = 1 -> [s EXCEPT !.unban_count = @ + 1]
      [] k = 2 -> [IncJail(s, ev.jail, "unbans") EXCEPT !.banned_ips =
                      [a \in DOMAIN @ |-> IF a = ev.ip THEN @[a] - 1 ELSE @[a]]]

UnbanStep(k, s, ev) ==
    CASE k = 1 -> [s EXCEPT !.unban_count = @ + 1]
      [] k = 2 -> IncJail(s, ev.jail, "unbans")

FindStep(k, s, ev) ==
    CASE k = 1 -> [s EXCEPT !.find_count = @ + 1]
      [] k = 2 -> IncJail(s, ev.jail, "finds")

NSteps(kind) == IF kind = "Ban" THEN 5 ELSE 2

RecordStep(k, s, ev) ==
    CASE ev.kind = "Ban" -> BanStep(k, s, ev)
      [] ev.kind = "Unban" -> UnbanStep(k, s, ev)
      [] ev.kind = "Found" -> FindStep(k, s, ev)

\* the whole locked block: statements k .. n in order
RECURSIVE RunSteps(_, _, _)
RunSteps(k, s, ev) ==
    IF k > NSteps(ev.kind) THEN s
    ELSE RunSteps(k + 1, RecordStep(k, s, ev), ev)

record_ban(s, timestamp, jail, ip) ==
    RunSteps(1, s, [kind |-> "Ban", timestamp |-> timestamp,
                    jail |-> jail, ip |-> ip])

record_unban(s, timestamp, jail, ip) ==
    RunSteps(1, s, [kind |-> "Unban", timestamp |-> timestamp,
                    jail |-> jail, ip |-> ip])

record_find(s, timestamp, jail, ip) ==
    RunSteps(1, s, [kind |-> "Found", timestamp |-> timestamp,
                    jail |-> jail, ip |-> ip])

JailBans(s) == [j \in DOMAIN s.jail_stats |-> s.jail_stats[j].bans]

----------------------------------------------------------------------------
(* The log file and the recognisers *)

\* the text of a log line: the fields the recognisers capture; kind "None" is
\* a line no recogniser matches
Event(kind, timestamp, jail, ip) ==
    [kind |-> kind, timestamp |-> timestamp, jail |-> jail, ip |-> ip]

T0 == [month |-> 1, hour |-> 10, minute |-> 0]

NoEvent == Event("None", T0, "sshd", "1.2.3.4")

Texts == {Event(k, t, j, a) : k \in Kinds, t \in Timestamps, j \in Jails, a \in IPs}
            \cup {NoEvent}

\* the lines the external writer writes to the log in the runs of the
\* monitor: one a recogniser matches and one none matches
LogTexts ==
    {Event("Ban", T0, "sshd", "1.2.3.4"),
     NoEvent}

\* and in the runs of the periodic loop: lines of each kind of event
AllLogTexts ==
    {Event("Ban", T0, "sshd", "1.2.3.4"),
     Event("Ban", T0, "nginx", "5.6.7.8"),
     Event("Unban", T0, "sshd", "1.2.3.4"),
     Event("Found", T0, "nginx", "5.6.7.8")}

\* line number id with text t, as the bytes the writer appends: the text up to
\* some point before its event word, the rest of the text, the line
\* terminator
Line(id, t) ==
    <<[id |-> id, part |-> "head", text |-> t],
      [id |-> id, part |-> "tail", text |-> t],
      [id |-> id, part |-> "nl", text |-> t]>>

RECURSIVE Lines(_, _)
Lines(from, ts) ==
    IF ts = <<>> THEN <<>> ELSE Line(from, Head(ts)) \o Lines(from + 1, Tail(ts))

\* line.strip(): the line without its terminator
Strip(line) ==
    IF line # <<>> /\ line[Len(line)].part = "nl"
    THEN SubSeq(line, 1, Len(line) - 1) ELSE line

\* PATTERN.search(line): the template occurs in the line whole
Search(kind, line) ==
    \E i \in 1..(Len(line) - 1) :
        /\ line[i].part = "head" /\ line[i + 1].part = "tail"
        /\ line[i].id = line[i + 1].id
        /\ line[i].text.kind = kind

Groups(kind, line) ==
    LET i == CHOOSE i \in 1..(Len(line) - 1) :
                 /\ line[i].part = "head" /\ line[i + 1].part = "tail"
                 /\ line[i].id = line[i + 1].id
                 /\ line[i].text.kind = kind
    IN  [line[i].text EXCEPT !.kind = kind]

\* recognisers tried in the order Unban, Ban, Found
ExtractUnbanFirst(line) ==
    IF Search("Unban", line) THEN Groups("Unban", line)
    ELSE IF Search("Ban", line) THEN Groups("Ban", line)
    ELSE IF Search("Found", line) THEN Groups("Found", line)
    ELSE NoEvent

\* the event _process_line records for a line: the first recogniser, in the
\* order Ban, Unban, Found, that matches
Extract(line) ==
    IF Search("Ban", line) THEN Groups("Ban", line)
    ELSE IF Search("Unban", line) THEN Groups("Unban", line)
    ELSE IF Search("Found", line) THEN Groups("Found", line)
    ELSE NoEvent

\* _process_line(line): the record call of the recogniser that matches, or
\* nothing
process_line(s, line) ==
    LET ev == Extract(line)
    IN  IF ev.kind = "None" THEN s ELSE RunSteps(1, s, ev)

\* `for line in f`: the next line of the file from offset pos: up to and
\* including the first terminator, or up to the end of the file
RECURSIVE LineEnd(_, _)
LineEnd(f, i) ==
    IF i >= Len(f) \/ f[i].part = "nl" THEN i ELSE LineEnd(f, i + 1)

NextLine(f, pos) == SubSeq(f, pos + 1, LineEnd(f, pos + 1))

LineId(line) == line[1].id

----------------------------------------------------------------------------
(* LogMonitor._monitor_log, the tailer thread *)

Alive == proc = "running"

\* a seek that leaves the offset at the start of the file
SeekStartTell(f) == 0

\* f.seek(0, os.SEEK_END); f.tell(): the length of the file
SeekEndTell(f) == Len(f)

\* a seek that takes offset 0 for "not seeded yet" and goes to the end
SeekOrSeed(pos, f) == IF pos = 0 THEN Len(f) ELSE pos

\* f.seek(self.last_position): the offset asked for, be it past the end
Seek(pos, f) == pos

\* a lock that excludes nobody
AcquireUnlocked == TRUE

\* a lock the tailer's hold of which keeps nobody out
AcquireOverTailer == lock # "main"

\* threading.Lock.acquire: a thread may take the lock when it is free
CanAcquire == lock = "free"

T_InitExists ==
    /\ Alive /\ tpc = "init"
    /\ tpc' = IF exists THEN "init_open" ELSE "loop"
    /\ hist' = [hist EXCEPT !.startedMissing = ~exists, !.init = TRUE]
    /\ UNCHANGED <<stats, lock, lockFrame, running, last_position, rpos, cur,
                   exists, file, nextId, rotations, readErrs, signals, mstack,
                   pend, proc, summary>>

\* open, seek(0, SEEK_END), tell
T_InitSeek ==
    /\ Alive /\ tpc = "init_open" /\ exists
    /\ last_position' = SeekEndTell(file)
    /\ tpc' = "loop"
    /\ UNCHANGED <<stats, lock, lockFrame, running, rpos, cur, exists, file,
                   nextId, rotations, readErrs, signals, mstack, pend, proc,
                   summary, hist>>

\* open, seek or tell raises (the file is gone, or cannot be read):
\* except Exception: log, return
T_InitError ==
    /\ Alive /\ tpc = "init_open"
    /\ tpc' = "done"
    /\ UNCHANGED <<stats, lock, lockFrame, running, last_position, rpos, cur,
                   exists, file, nextId, rotations, readErrs, signals, mstack,
                   pend, proc, summary, hist>>

\* a loop that never looks at the flag: while True
T_LoopForever ==
    /\ Alive /\ tpc = "loop"
    /\ tpc' = "poll"
    /\ UNCHANGED <<stats, lock, lockFrame, running, last_position, rpos, cur,
                   exists, file, nextId, rotations, readErrs, signals, mstack,
                   pend, proc, summary, hist>>

\* while self.running
T_Loop ==
    /\ Alive /\ tpc = "loop"
    /\ tpc' = IF running THEN "poll" ELSE "done"
    /\ UNCHANGED <<stats, lock, lockFrame, running, last_position, rpos, cur,
                   exists, file, nextId, rotations, readErrs, signals, mstack,
                   pend, proc, summary, hist>>

\* if not os.path.exists: sleep(1); continue
T_PollExists ==
    /\ Alive /\ tpc = "poll"
    /\ tpc' = IF exists THEN "open" ELSE "loop"
    /\ UNCHANGED <<stats, lock, lockFrame, running, last_position, rpos, cur,
                   exists, file, nextId, rotations, readErrs, signals, mstack,
                   pend, proc, summary, hist>>

\* open, seek(self.last_position)
T_Open ==
    /\ Alive /\ tpc = "open" /\ exists
    /\ rpos' = Seek(last_position, file)
    /\ tpc' = "read"
    /\ UNCHANGED <<stats, lock, lockFrame, running, last_position, cur,
                   exists, file, nextId, rotations, readErrs, signals, mstack,
                   pend, proc, summary, hist>>

\* the next line of `for line in f`, passed to _process_line(line.strip()),
\* up to its record call if a recogniser matches
T_ReadLine ==
    /\ Alive /\ tpc = "read" /\ rpos < Len(file)
    /\ LET line == NextLine(file, rpos)
           ev == Extract(Strip(line))
       IN  /\ cur' = [line |-> line, ev |-> ev, k |-> 1]
           /\ rpos' = rpos + Len(line)
           /\ tpc' = IF ev.kind = "None" THEN "read" ELSE "acquire"
           /\ hist' = [hist EXCEPT !.fed = Append(@, Strip(line))]
    /\ UNCHANGED <<stats, lock, lockFrame, running, last_position, exists,
                   file, nextId, rotations, readErrs, signals, mstack, pend,
                   proc, summary>>

\* the loop over the lines is exhausted: self.last_position = f.tell(),
\* then sleep(0.1)
T_Tell ==
    /\ Alive /\ tpc = "read" /\ rpos >= Len(file)
    /\ last_position' = rpos
    /\ tpc' = "loop"
    /\ UNCHANGED <<stats, lock, lockFrame, running, rpos, cur, exists, file,
                   nextId, rotations, readErrs, signals, mstack, pend, proc,
                   summary, hist>>

\* open or seek raises (the file is gone, or cannot be read):
\* except Exception: log, sleep(5)
T_OpenError ==
    /\ Alive /\ tpc = "open"
    /\ tpc' = "loop"
    /\ UNCHANGED <<stats, lock, lockFrame, running, last_position, rpos, cur,
                   exists, file, nextId, rotations, readErrs, signals, mstack,
                   pend, proc, summary, hist>>

\* a read of the open file raises: except Exception: log, sleep(5)
T_ReadError ==
    /\ Alive /\ tpc = "read"
    /\ readErrs < MaxReadErrors
    /\ readErrs' = readErrs + 1
    /\ tpc' = "loop"
    /\ UNCHANGED <<stats, lock, lockFrame, running, last_position, rpos, cur,
                   exists, file, nextId, rotations, signals, mstack, pend,
                   proc, summary, hist>>

\* with self.lock, entered by record_ban / record_unban / record_find
T_Acquire ==
    /\ Alive /\ tpc = "acquire" /\ CanAcquire
    /\ lock' = "tailer"
    /\ tpc' = "record"
    /\ UNCHANGED <<stats, lockFrame, running, last_position, rpos, cur,
                   exists, file, nextId, rotations, readErrs, signals, mstack,
                   pend, proc, summary, hist>>

\* one statement of the locked block; the lock is released after the last
T_Record ==
    /\ Alive /\ tpc = "record"
    /\ stats' = RecordStep(cur.k, stats, cur.ev)
    /\ IF cur.k = NSteps(cur.ev.kind)
       THEN /\ lock' = "free"
            /\ tpc' = "read"
            /\ hist' = [hist EXCEPT !.recorded = Append(@, LineId(cur.line))]
            /\ UNCHANGED cur
       ELSE /\ cur' = [cur EXCEPT !.k = @ + 1]
            /\ UNCHANGED <<lock, tpc, hist>>
    /\ UNCHANGED <<lockFrame, running, last_position, rpos, exists, file,
                   nextId, rotations, readErrs, signals, mstack, pend, proc,
                   summary>>

Tailer ==
    \/ T_InitExists \/ T_InitSeek \/ T_InitError \/ T_Loop \/ T_PollExists
    \/ T_Open \/ T_OpenError \/ T_ReadLine \/ T_ReadError \/ T_Tell
    \/ T_Acquire \/ T_Record

----------------------------------------------------------------------------
(* The external writer and the rotation of the log *)

W_Create ==
    /\ Alive /\ ~exists
    /\ exists' = TRUE
    /\ file' = <<>>
    /\ UNCHANGED <<stats, lock, lockFrame, running, last_position, tpc, rpos,
                   cur, nextId, rotations, readErrs, signals, mstack, pend,
                   proc, summary, hist>>

W_Append(texts) ==
    /\ Alive /\ exists /\ nextId < hist.pre + MaxLines
    /\ \E t \in texts : file' = file \o Line(nextId + 1, t)
    /\ nextId' = nextId + 1
    /\ UNCHANGED <<stats, lock, lockFrame, running, last_position, tpc, rpos,
                   cur, exists, rotations, readErrs, signals, mstack, pend,
                   proc, summary, hist>>

\* the tailer is past its initial seek, in its polling loop
Polling == tpc \notin {"init", "init_open", "done"}

\* copy-and-truncate rotation
W_Truncate ==
    /\ Alive /\ exists /\ file # <<>> /\ rotations < MaxRotations
    /\ file' = <<>>
    /\ rotations' = rotations + 1
    /\ hist' = [hist EXCEPT !.truncAt = IF Polling THEN nextId ELSE @]
    /\ UNCHANGED <<stats, lock, lockFrame, running, last_position, tpc, rpos,
                   cur, exists, nextId, readErrs, signals, mstack, pend, proc,
                   summary>>

\* move-away rotation: the file is gone until the writer creates it again
W_Remove ==
    /\ Alive /\ exists /\ rotations < MaxRotations
    /\ exists' = FALSE
    /\ file' = <<>>
    /\ rotations' = rotations + 1
    /\ hist' = [hist EXCEPT !.truncAt = IF Polling THEN nextId ELSE @]
    /\ UNCHANGED <<stats, lock, lockFrame, running, last_position, tpc, rpos,
                   cur, nextId, readErrs, signals, mstack, pend, proc, summary>>

Writer == W_Create \/ W_Append(LogTexts) \/ W_Truncate \/ W_Remove

\* the last line of the log has no terminator yet
MidLine == file # <<>> /\ file[Len(file)].part # "nl"

\* a line written in two parts: the first part, without its terminator
W_AppendHead ==
    /\ Alive /\ exists /\ ~MidLine /\ nextId < hist.pre + MaxLines
    /\ \E t \in LogTexts : file' = Append(file, Line(nextId + 1, t)[1])
    /\ nextId' = nextId + 1
    /\ UNCHANGED <<stats, lock, lockFrame, running, last_position, tpc, rpos,
                   cur, exists, rotations, readErrs, signals, mstack, pend,
                   proc, summary, hist>>

\* and the rest of it, with the terminator
W_AppendRest ==
    /\ Alive /\ exists /\ MidLine
    /\ LET first == file[Len(file)]
       IN  file' = file \o SubSeq(Line(first.id, first.text), 2, 3)
    /\ UNCHANGED <<stats, lock, lockFrame, running, last_position, tpc, rpos,
                   cur, exists, nextId, rotations, readErrs, signals, mstack,
                   pend, proc, summary, hist>>

----------------------------------------------------------------------------
(* Fail2banStats read operations *)

TopN == 10

Pairs(m) == {<<k, m[k]>> : k \in DOMAIN m}

Range(q) == {q[i] : i \in DOMAIN q}

\* sorted(pairs, key = count, reverse = True)
SortedDesc(pairs) ==
    CHOOSE q \in [1..Cardinality(pairs) -> pairs] :
        /\ Range(q) = pairs
        /\ \A i \in 1..(Len(q) - 1) : q[i][2] >= q[i + 1][2]

FirstN(q, n) == SubSeq(q, 1, IF Len(q) < n THEN Len(q) ELSE n)

\* Counter.most_common(n)
most_common(m, n) == FirstN(SortedDesc(Pairs(m)), n)

\* the rankings get_summary computes first
Rankings(s) ==
    [top_ips |-> most_common(s.banned_ips, TopN),
     top_jails |-> SortedDesc(Pairs(JailBans(s)))]

\* the dictionary get_summary returns
get_summary(s, ranks) ==
    [total_bans |-> s.ban_count,
     total_unbans |-> s.unban_count,
     total_finds |-> s.find_count,
     unique_ips |-> Cardinality(DOMAIN s.banned_ips),
     top_banned_ips |-> ranks.top_ips,
     top_jails |-> ranks.top_jails,
     hourly_distribution |-> s.hourly_stats]

NoSummary == get_summary(NewStats, Rankings(NewStats))

\* self.ip_jail_map[ip] for each address of the list: a defaultdict makes
\* an entry for a key it does not hold
ReadJails(s, q) ==
    [s EXCEPT !.ip_jail_map =
        [a \in DOMAIN @ \cup {q[i][1] : i \in 1..Len(q)} |-> Get(@, a, {})]]

\* the rows export_to_csv writes after the header, for the list q that
\* most_common() returned
CsvRows(s, q) ==
    [i \in 1..Len(q) |-> <<q[i][1], q[i][2], Get(s.ip_jail_map, q[i][1], {})>>]

RECURSIVE SumPairs(_)
SumPairs(q) == IF q = <<>> THEN 0 ELSE Head(q)[2] + SumPairs(Tail(q))

----------------------------------------------------------------------------
(* The main thread: main()'s periodic loop and finally block, and the      *)
(* signal handler, which runs on top of whatever the main thread was doing *)

LoopSites == {"sleep", "summary", "export"}
FinallySites == {"fin_stop", "fin_json", "fin_csv", "fin_end"}
HandlerSites == {"h_stop", "h_json", "h_csv", "h_chart", "h_summary", "h_exit"}

\* the call made at each place of main() and of signal_handler
Op(site) ==
    CASE site = "sleep" -> "sleep"
      [] site = "summary" -> "get_summary"
      [] site = "export" -> "export_to_json"
      [] site = "fin_stop" -> "stop"
      [] site = "fin_json" -> "export_to_json"
      [] site = "fin_csv" -> "export_to_csv"
      [] site = "fin_end" -> "end"
      [] site = "h_stop" -> "stop"
      [] site = "h_json" -> "export_to_json"
      [] site = "h_csv" -> "export_to_csv"
      [] site = "h_chart" -> "print_ascii_chart"
      [] site = "h_summary" -> "get_summary"
      [] site = "h_exit" -> "sys_exit"

NextSite(site) ==
    CASE site = "sleep" -> "summary"
      [] site = "summary" -> "export"
      [] site = "export" -> "sleep"
      [] site = "fin_stop" -> "fin_json"
      [] site = "fin_json" -> "fin_csv"
      [] site = "fin_csv" -> "fin_end"
      [] site = "h_stop" -> "h_json"
      [] site = "h_json" -> "h_csv"
      [] site = "h_csv" -> "h_chart"
      [] site = "h_chart" -> "h_summary"
      [] site = "h_summary" -> "h_exit"

LockedOps == {"get_summary", "export_to_json", "export_to_csv", "print_ascii_chart"}

\* the first step of the call made at a site
FirstStep(site) ==
    IF Op(site) \in LockedOps THEN "acquire"
    ELSE IF Op(site) = "stop" THEN "flag"
    ELSE "run"

Local == [ranks |-> Rankings(NewStats), data |-> NewStats, rows |-> <<>>]

Frame(fn, site) ==
    [fn |-> fn, site |-> site, step |-> FirstStep(site), local |-> Local]

Depth == Len(mstack)
Top == mstack[Depth]

\* the main thread's stack with its top frame replaced
WithTop(f) == [mstack EXCEPT ![Depth] = f]

\* the top frame returns from its call and goes on to the next one
Advance == WithTop(Frame(Top.fn, NextSite(Top.site)))

MainAt(op, step) ==
    /\ Alive /\ Depth > 0
    /\ Op(Top.site) = op /\ Top.step = step

\* time.sleep(args.interval)
M_Sleep ==
    /\ MainAt("sleep", "run")
    /\ mstack' = Advance
    /\ UNCHANGED <<stats, lock, lockFrame, running, last_position, tpc, rpos,
                   cur, exists, file, nextId, rotations, readErrs, signals,
                   pend, proc, summary, hist>>

\* with self.lock, entered by a read operation
M_Acquire ==
    /\ Alive /\ Depth > 0 /\ Top.step = "acquire" /\ CanAcquire
    /\ lock' = "main"
    /\ lockFrame' = Depth
    /\ mstack' = WithTop([Top EXCEPT !.step =
          CASE Op(Top.site) = "get_summary" -> "top"
            [] Op(Top.site) = "export_to_json" -> "copy"
            [] Op(Top.site) = "export_to_csv" -> "rows"
            [] Op(Top.site) = "print_ascii_chart" -> "print"])
    /\ UNCHANGED <<stats, running, last_position, tpc, rpos, cur, exists,
                   file, nextId, rotations, readErrs, signals, pend, proc,
                   summary, hist>>

\* get_summary: top_ips and top_jails
M_SummaryTop ==
    /\ MainAt("get_summary", "top")
    /\ mstack' = WithTop([Top EXCEPT !.step = "ret",
                                     !.local.ranks = Rankings(stats)])
    /\ UNCHANGED <<stats, lock, lockFrame, running, last_position, tpc, rpos,
                   cur, exists, file, nextId, rotations, readErrs, signals,
                   pend, proc, summary, hist>>

\* get_summary: the returned dictionary; the lock is released
M_SummaryReturn ==
    /\ MainAt("get_summary", "ret")
    /\ summary' = get_summary(stats, Top.local.ranks)
    /\ lock' = "free" /\ lockFrame' = 0
    /\ mstack' = Advance
    /\ UNCHANGED <<stats, running, last_position, tpc, rpos, cur, exists,
                   file, nextId, rotations, readErrs, signals, pend, proc,
                   hist>>

\* export_to_json: the data dictionary
M_JsonCopy ==
    /\ MainAt("export_to_json", "copy")
    /\ mstack' = WithTop([Top EXCEPT !.step = "write", !.local.data = stats])
    /\ UNCHANGED <<stats, lock, lockFrame, running, last_position, tpc, rpos,
                   cur, exists, file, nextId, rotations, readErrs, signals,
                   pend, proc, summary, hist>>

\* export_to_json: open and json.dump succeed; the lock is released
M_JsonWrite ==
    /\ MainAt("export_to_json", "write")
    /\ lock' = "free" /\ lockFrame' = 0
    /\ mstack' = Advance
    /\ UNCHANGED <<stats, running, last_position, tpc, rpos, cur, exists,
                   file, nextId, rotations, readErrs, signals, pend, proc,
                   summary, hist>>

\* export_to_csv: the file is open and the header written;
\* self.banned_ips.most_common() returns its list
M_CsvRows ==
    /\ MainAt("export_to_csv", "rows")
    /\ mstack' = WithTop([Top EXCEPT !.step = "write",
                                     !.local.rows = SortedDesc(Pairs(stats.banned_ips))])
    /\ UNCHANGED <<stats, lock, lockFrame, running, last_position, tpc, rpos,
                   cur, exists, file, nextId, rotations, readErrs, signals,
                   pend, proc, summary, hist>>

\* export_to_csv: the rows of the list are written, each with the jails of
\* self.ip_jail_map[ip]; the lock is released
M_CsvWrite ==
    /\ MainAt("export_to_csv", "write")
    /\ stats' = ReadJails(stats, Top.local.rows)
    /\ hist' = [hist EXCEPT !.csv = CsvRows(stats, Top.local.rows)]
    /\ lock' = "free" /\ lockFrame' = 0
    /\ mstack' = Advance
    /\ UNCHANGED <<running, last_position, tpc, rpos, cur, exists,
                   file, nextId, rotations, readErrs, signals, pend, proc,
                   summary>>

\* print_ascii_chart
M_Chart ==
    /\ MainAt("print_ascii_chart", "print")
    /\ lock' = "free" /\ lockFrame' = 0
    /\ mstack' = Advance
    /\ UNCHANGED <<stats, running, last_position, tpc, rpos, cur, exists,
                   file, nextId, rotations, readErrs, signals, pend, proc,
                   summary, hist>>

\* LogMonitor.stop: self.running = False
M_StopFlag ==
    /\ MainAt("stop", "flag")
    /\ running' = FALSE
    /\ mstack' = WithTop([Top EXCEPT !.step = "join"])
    /\ UNCHANGED <<stats, lock, lockFrame, last_position, tpc, rpos, cur,
                   exists, file, nextId, rotations, readErrs, signals, pend,
                   proc, summary, hist>>

\* LogMonitor.stop: self.thread.join(timeout = 2.0) returns, the thread
\* finished or not
M_StopJoin ==
    /\ MainAt("stop", "join")
    /\ mstack' = Advance
    /\ UNCHANGED <<stats, lock, lockFrame, running, last_position, tpc, rpos,
                   cur, exists, file, nextId, rotations, readErrs, signals,
                   pend, proc, summary, hist>>

\* an exception raised in the top frame unwinds the main thread: every with
\* block it leaves releases the lock, handler frames are left, and main()
\* runs its finally block, unless it is in it already and the process ends
Unwind(exc) ==
    /\ IF lock = "main" THEN lock' = "free" /\ lockFrame' = 0
       ELSE UNCHANGED <<lock, lockFrame>>
    /\ IF mstack[1].site \in LoopSites
       THEN /\ mstack' = <<Frame("main", "fin_stop")>>
            /\ pend' = exc
            /\ UNCHANGED proc
       ELSE /\ mstack' = <<>>
            /\ pend' = exc
            /\ proc' = IF exc = "SystemExit" THEN "exited" ELSE "crashed"

\* open or a write of an export raises an I/O error
M_ExportError ==
    /\ Alive /\ Depth > 0
    /\ Op(Top.site) \in {"export_to_json", "export_to_csv"}
    /\ Top.step = "write"
    /\ Unwind("IOError")
    /\ UNCHANGED <<stats, running, last_position, tpc, rpos, cur, exists,
                   file, nextId, rotations, readErrs, signals, summary,
                   hist>>

\* sys.exit(0) in the handler
M_SysExit ==
    /\ MainAt("sys_exit", "run")
    /\ Unwind("SystemExit")
    /\ UNCHANGED <<stats, running, last_position, tpc, rpos, cur, exists,
                   file, nextId, rotations, readErrs, signals, summary, hist>>

\* the end of main()'s finally block: the pending exception goes on
M_End ==
    /\ MainAt("end", "run")
    /\ mstack' = <<>>
    /\ proc' = IF pend = "SystemExit" THEN "exited" ELSE "crashed"
    /\ UNCHANGED <<stats, lock, lockFrame, running, last_position, tpc, rpos,
                   cur, exists, file, nextId, rotations, readErrs, signals,
                   pend, summary, hist>>

\* SIGINT / SIGTERM: the handler starts on top of the main thread's stack
Signal ==
    /\ Alive /\ Depth > 0 /\ signals < MaxSignals
    /\ signals' = signals + 1
    /\ mstack' = Append(mstack, Frame("handler", "h_stop"))
    /\ UNCHANGED <<stats, lock, lockFrame, running, last_position, tpc, rpos,
                   cur, exists, file, nextId, rotations, readErrs, pend, proc,
                   summary, hist>>

Main ==
    \/ M_Sleep \/ M_Acquire \/ M_SummaryTop \/ M_SummaryReturn \/ M_JsonCopy
    \/ M_JsonWrite \/ M_CsvRows \/ M_CsvWrite \/ M_Chart \/ M_StopFlag \/ M_StopJoin
    \/ M_ExportError \/ M_SysExit \/ M_End

----------------------------------------------------------------------------
(* The monitor as started by main(): the store is new, the handlers are    *)
(* installed, monitor.start() has set running and started the thread, and  *)
(* the log may or may not exist yet                                        *)

NoLine == [line |-> <<>>, ev |-> NoEvent, k |-> 0]

\* pre: lines in the log at the start; init, startedMissing: the tailer has
\* looked for the log, and found none; fed: the lines passed to
\* _process_line; recorded: the lines whose record call has returned;
\* truncAt: lines written before the last truncation or removal that
\* happened while the tailer was polling; csv: the rows of the last file
\* export_to_csv has written
NoHist ==
    [pre |-> 0, init |-> FALSE, startedMissing |-> FALSE, fed |-> <<>>,
     recorded |-> <<>>, truncAt |-> -1, csv |-> <<>>]

\* what every run starts from
Started ==
    /\ stats = NewStats
    /\ lock = "free" /\ lockFrame = 0
    /\ running = TRUE
    /\ last_position = 0
    /\ tpc = "init" /\ rpos = 0 /\ cur = NoLine
    /\ rotations = 0 /\ readErrs = 0 /\ signals = 0
    /\ pend = "none"
    /\ proc = "running"
    /\ summary = NoSummary

\* the log at the start: absent, or holding up to n whole lines
LogAtStart(n) ==
    \E old \in UNION {[1..k -> LogTexts] : k \in 0..n} :
        /\ file = Lines(1, old)
        /\ nextId = Len(old)
        /\ hist = [NoHist EXCEPT !.pre = Len(old)]
        /\ exists \in (IF old = <<>> THEN BOOLEAN ELSE {TRUE})

(* The whole process: the tailer, main()'s loop, the signal handler, and a *)
(* writer that creates the log and appends to it                           *)
Init ==
    /\ Started
    /\ LogAtStart(0)
    /\ mstack = <<Frame("main", "sleep")>>

Next == Tailer \/ Main \/ Signal \/ W_Create \/ W_Append(LogTexts)

Spec == Init /\ [][Next]_vars

(* The tailer and main()'s periodic loop, with a writer that appends lines *)
(* of every kind                                                           *)
LoopNext ==
    \/ Tailer \/ W_Create \/ W_Append(AllLogTexts)
    \/ M_Sleep \/ M_Acquire \/ M_SummaryTop \/ M_SummaryReturn
    \/ M_JsonCopy \/ M_JsonWrite

LoopSpec == Init /\ [][LoopNext]_vars

(* The tailer against a log that is written, truncated and removed, with a *)
(* caller that stops the monitor at any moment                             *)
TailInit ==
    /\ Started
    /\ LogAtStart(MaxPreLines)
    /\ mstack = <<Frame("main", "fin_stop")>>

TailNext == Tailer \/ Writer \/ M_StopFlag \/ M_StopJoin

TailSpec == TailInit /\ [][TailNext]_vars

\* the tailer thread keeps being scheduled, and the errors of open are
\* transient: an open retried for ever succeeds at some time
FairTailSpec ==
    /\ TailSpec
    /\ WF_vars(Tailer)
    /\ SF_vars(T_Open)

(* The tailer against a log that is only created and appended to, started *)
(* with the log absent or empty                                           *)
AppendInit ==
    /\ Started
    /\ LogAtStart(0)
    /\ mstack = <<Frame("main", "fin_stop")>>

AppendNext ==
    Tailer \/ W_Create \/ W_Append(LogTexts) \/ M_StopFlag \/ M_StopJoin

AppendSpec == AppendInit /\ [][AppendNext]_vars

FairAppendSpec ==
    /\ AppendSpec
    /\ WF_vars(Tailer)
    /\ SF_vars(T_Open)

(* The tailer against a log whose writer appends each line in two parts   *)
SplitNext ==
    \/ Tailer \/ W_Create \/ W_AppendHead \/ W_AppendRest
    \/ M_StopFlag \/ M_StopJoin

SplitSpec == AppendInit /\ [][SplitNext]_vars

(* The shutdown by a signal: the tailer, started on an empty log and with *)
(* no error of open or read, a writer of ban lines, and the handler,      *)
(* delivered while main() sleeps between two periodic updates             *)
MaxBanLines == 3    \* lines the external writer writes in these runs

BanTexts ==
    {Event("Ban", T0, "sshd", "1.2.3.4"),
     Event("Ban", T0, "nginx", "5.6.7.8")}

W_AppendBan ==
    /\ Alive /\ exists /\ nextId < MaxBanLines
    /\ \E t \in BanTexts : file' = file \o Line(nextId + 1, t)
    /\ nextId' = nextId + 1
    /\ UNCHANGED <<stats, lock, lockFrame, running, last_position, tpc, rpos,
                   cur, exists, rotations, readErrs, signals, mstack, pend,
                   proc, summary, hist>>

ShutdownInit ==
    /\ Started
    /\ exists = TRUE /\ file = <<>> /\ nextId = 0 /\ hist = NoHist
    /\ mstack = <<Frame("main", "sleep")>>

ShutdownNext ==
    \/ T_InitExists \/ T_InitSeek \/ T_Loop \/ T_PollExists \/ T_Open
    \/ T_ReadLine \/ T_Tell \/ T_Acquire \/ T_Record
    \/ W_AppendBan \/ Signal
    \/ M_StopFlag \/ M_StopJoin \/ M_Acquire \/ M_JsonCopy \/ M_JsonWrite
    \/ M_CsvRows \/ M_CsvWrite \/ M_Chart \/ M_SummaryTop
    \/ M_SummaryReturn \/ M_SysExit

ShutdownSpec == ShutdownInit /\ [][ShutdownNext]_vars

(* The store alone: record_ban, record_unban and record_find called one    *)
(* after the other, each running its locked block to the end               *)
Calls == stats.ban_count + stats.unban_count + stats.find_count

S_RecordBan ==
    /\ lock = "free" /\ Calls < MaxEvents
    /\ \E t \in Timestamps, j \in Jails, a \in IPs :
          stats' = record_ban(stats, t, j, a)
    /\ UNCHANGED <<lock, lockFrame, running, last_position, tpc, rpos, cur,
                   exists, file, nextId, rotations, readErrs, signals, mstack,
                   pend, proc, summary, hist>>

S_RecordUnban ==
    /\ lock = "free" /\ Calls < MaxEvents
    /\ \E t \in Timestamps, j \in Jails, a \in IPs :
          stats' = record_unban(stats, t, j, a)
    /\ UNCHANGED <<lock, lockFrame, running, last_position, tpc, rpos, cur,
                   exists, file, nextId, rotations, readErrs, signals, mstack,
                   pend, proc, summary, hist>>

S_RecordFind ==
    /\ lock = "free" /\ Calls < MaxEvents
    /\ \E t \in Timestamps, j \in Jails, a \in IPs :
          stats' = record_find(stats, t, j, a)
    /\ UNCHANGED <<lock, lockFrame, running, last_position, tpc, rpos, cur,
                   exists, file, nextId, rotations, readErrs, signals, mstack,
                   pend, proc, summary, hist>>

StoreInit ==
    /\ Started
    /\ exists = FALSE /\ file = <<>> /\ nextId = 0 /\ hist = NoHist
    /\ mstack = <<>>

\* the lines passed to _process_line in the runs of the store: a ban with
\* each timestamp, an unban, a detection, a line no recogniser matches, and
\* lines on which the texts of two events stand one after the other
FeedTexts ==
    {Event("Ban", t, j, a) : t \in Timestamps, j \in Jails, a \in IPs}
        \cup {Event(k, T0, j, a) : k \in {"Unban", "Found"}, j \in Jails, a \in IPs}
        \cup {NoEvent}

JoinedTexts ==
    {<<Event("Unban", T0, "sshd", "1.2.3.4"), Event("Ban", T0, "nginx", "5.6.7.8")>>,
     <<Event("Found", T0, "nginx", "5.6.7.8"), Event("Unban", T0, "sshd", "1.2.3.4")>>}

Joined(id, t1, t2) ==
    SubSeq(Line(id, t1), 1, 2) \o SubSeq(Line(id, t2), 1, 2)

FeedLines(id) ==
    {Strip(Line(id, t)) : t \in FeedTexts}
        \cup {Joined(id, p[1], p[2]) : p \in JoinedTexts}

\* self._process_line(line), the record call it makes run to its end
S_ProcessLine ==
    /\ lock = "free" /\ Len(hist.fed) < MaxEvents
    /\ \E line \in FeedLines(Len(hist.fed) + 1) :
          /\ stats' = process_line(stats, line)
          /\ hist' = [hist EXCEPT !.fed = Append(@, line)]
    /\ UNCHANGED <<lock, lockFrame, running, last_position, tpc, rpos, cur,
                   exists, file, nextId, rotations, readErrs, signals, mstack,
                   pend, proc, summary>>

(* The store fed line by line through _process_line *)
FeedSpec == StoreInit /\ [][S_ProcessLine]_vars

StoreNext == S_RecordBan \/ S_RecordUnban \/ S_RecordFind

StoreSpec == StoreInit /\ [][StoreNext]_vars

----------------------------------------------------------------------------
(* Properties *)

\* C1: between operations of the store, ban_count equals the sum over all
\* jails of jail_stats[jail]['bans'] and equals the sum of the values of
\* banned_ips.
C1_BanCountIsSumOfJailsAndIps ==
    /\ stats.ban_count = SumValues(JailBans(stats))
    /\ stats.ban_count = SumValues(stats.banned_ips)

\* C1 witness: bans of two addresses by two jails, and an unban, are recorded
C1_Witness ==
    /\ stats.ban_count = 2 /\ stats.unban_count = 1
    /\ Cardinality(DOMAIN stats.banned_ips) = 2
    /\ \A j \in Jails : j \in DOMAIN stats.jail_stats /\ stats.jail_stats[j].bans = 1

\* a frame of the main thread is inside the locked block of a read operation
InLockedBlock(f) ==
    Op(f.site) \in LockedOps /\ f.step # "acquire"

\* C2: a summary returned by get_summary, whatever the tailer's record calls
\* were doing meanwhile, has total_bans equal to the sum of the ban counts
\* listed in top_jails; and the locked blocks of two store operations never
\* run at the same time.
C2_SummaryNeverSeesPartialEvent ==
    /\ summary.total_bans = SumPairs(summary.top_jails)
    /\ tpc = "record" => lock = "tailer"
    /\ \A d \in 1..Depth :
          InLockedBlock(mstack[d]) => lock = "main" /\ lockFrame = d

\* C2 witness: get_summary has returned a summary with a ban in it while the
\* tailer was about to record the next ban
C2_Witness ==
    /\ summary.total_bans = 1
    /\ tpc = "acquire" /\ cur.ev.kind = "Ban"
    /\ Depth = 1 /\ Top.site = "export" /\ Top.step = "acquire"

\* the handler is waiting for the lock while a frame below it, of the thread
\* it has interrupted, holds the lock: the wait cannot end
HandlerWaitsForOwnThread ==
    /\ Alive /\ Depth > 1
    /\ Top.fn = "handler" /\ Top.step = "acquire"
    /\ lock = "main" /\ lockFrame < Depth

\* C3: wherever the main thread is when a signal is delivered, the shutdown
\* path of the handler never blocks indefinitely waiting for the store lock.
C3_ShutdownNeverBlocksOnLock == ~HandlerWaitsForOwnThread

\* C4: the store lock is never held while an export opens and writes its
\* file, so the tailer's record call never waits for a file write.
C4_LockNotHeldDuringFileWrite ==
    \A d \in 1..Depth :
        (Op(mstack[d].site) \in {"export_to_json", "export_to_csv"}
            /\ mstack[d].step = "write")
        => ~(lock = "main" /\ lockFrame = d)

\* line number id is in the file whole, and a recogniser matches it
Recognised(id) ==
    \E i \in 1..(Len(file) - 2) :
        /\ file[i].id = id /\ file[i].part = "head"
        /\ file[i + 1].id = id /\ file[i + 1].part = "tail"
        /\ file[i + 2].id = id /\ file[i + 2].part = "nl"
        /\ file[i].text.kind # "None"

Recorded(id) == \E i \in 1..Len(hist.recorded) : hist.recorded[i] = id

LineIds == 1..(MaxPreLines + MaxLines)

Stopping == ~running \/ tpc = "done"

\* C5: after the log is truncated or replaced and written again, the tailer
\* eventually ingests the lines appended after the truncation (unless it is
\* stopped first).
C5_ResumesAfterTruncation ==
    \A id \in LineIds :
        (hist.truncAt >= 0 /\ id > hist.truncAt /\ Recognised(id))
            ~> (Recorded(id) \/ Stopping)

\* C6: after every completed polling iteration last_position is at most the
\* length of the file seen by that iteration.
C6_OffsetWithinFileAfterPoll ==
    [][T_Tell => last_position' <= Len(file)]_vars

\* C7: when the tailer found no log at its start, and the log is then
\* created and appended to, every recognised line appended, the lines written
\* at its creation included, is eventually recorded in the store (unless the
\* monitor is stopped first).
C7_StartedMissingRecordsAllLines ==
    \A id \in LineIds :
        (hist.startedMissing /\ Recognised(id))
            ~> (Recorded(id) \/ Stopping)

\* C7 witness: the tailer started without a log and has recorded the two
\* lines written since
C7_Witness ==
    /\ hist.startedMissing /\ rotations = 0 /\ running
    /\ Recorded(1) /\ Recorded(2)

\* the line is one that was in the log when the monitor started
OldLine(line) == \E i \in 1..Len(line) : line[i].id <= hist.pre

Seeded == hist.init /\ ~hist.startedMissing /\ Polling

\* C8: when the tailer finds the log at its start, last_position is seeded
\* to its end (every byte the log held at the start lies before it), and no
\* line that was in the log before the start is ever passed to
\* _process_line.
C8_NoReplayOfOldLines ==
    /\ Seeded => \A i \in 1..Len(file) :
                      file[i].id <= hist.pre => i <= last_position
    /\ \A i \in 1..Len(hist.fed) : ~OldLine(hist.fed[i])

\* C8 witness: the log held a line at the start, and the tailer has since
\* processed a line appended to it
C8_Witness ==
    /\ Seeded /\ hist.pre = 1 /\ rotations = 0
    /\ Len(hist.fed) >= 1

\* C9: the polling loop exits only after stop() has set running to False;
\* no error of open, seek or read ends the tailer.
C9_TailerEndsOnlyOnStop == tpc = "done" => ~running

\* the periodic export of main()'s loop fails
PeriodicExportFails ==
    M_ExportError /\ Depth = 1 /\ Top.site = "export"

\* C10: when an export fails with an I/O error the lock is released, the
\* aggregates are unchanged and the process keeps running: main() stays in
\* its periodic loop, to export again at the next period.
C10_ExportFailureKeepsLoopRunning ==
    [][PeriodicExportFails =>
          /\ lock' = "free" /\ stats' = stats
          /\ proc' = "running" /\ running' = running
          /\ Len(mstack') = 1 /\ mstack'[1].site \in LoopSites]_vars

\* C11: once stop() has cleared the flag it stays cleared; the tailer's next
\* check of the flag ends the loop, and an ended loop starts no iteration
\* again; and the join of stop() can return wherever the tailer is, so stop()
\* does not wait for the loop to confirm its exit.
C11_StopEndsLoopAndReturns ==
    /\ [](MainAt("stop", "join") => ENABLED M_StopJoin)
    /\ [][~running => ~running']_vars
    /\ [][(~running /\ tpc = "loop" /\ tpc' # tpc) => tpc' = "done"]_vars
    /\ [][tpc = "done" => tpc' = "done"]_vars

\* C11 witness: stop() has returned while the tailer, which had processed a
\* line, has ended its loop at its check of the flag
C11_Witness ==
    /\ ~running /\ tpc = "done" /\ hist.init
    /\ Depth = 1 /\ Top.site = "fin_json"
    /\ Len(hist.fed) >= 1

\* the texts of events that stand on a line
Carried(line) == {line[i].text : i \in 1..Len(line)}

Carries(line, kind) == \E t \in Carried(line) : t.kind = kind

\* the event a line stands for: its Ban text if it carries one, else its
\* Unban text, else its Found text, else none
EventOf(line) ==
    IF Carries(line, "Ban") THEN CHOOSE t \in Carried(line) : t.kind = "Ban"
    ELSE IF Carries(line, "Unban")
         THEN CHOOSE t \in Carried(line) : t.kind = "Unban"
    ELSE IF Carries(line, "Found")
         THEN CHOOSE t \in Carried(line) : t.kind = "Found"
    ELSE NoEvent

\* the step passes one more line to _process_line
FeedsLine == Len(hist'.fed) = Len(hist.fed) + 1

LastFed == EventOf(hist'.fed[Len(hist'.fed)])

\* C12: record_unban adds one to unban_count and to the unbans of its jail
\* and changes nothing else: banned_ips, ip_jail_map, ban_count, find_count
\* and hourly_stats are as before, and so are the other counts of every jail.
C12_UnbanOnlyCountsUnban ==
    [][(FeedsLine /\ LastFed.kind = "Unban") =>
          /\ stats'.unban_count = stats.unban_count + 1
          /\ stats'.banned_ips = stats.banned_ips
          /\ stats'.ip_jail_map = stats.ip_jail_map
          /\ stats'.ban_count = stats.ban_count
          /\ stats'.find_count = stats.find_count
          /\ stats'.hourly_stats = stats.hourly_stats
          /\ stats'.jail_stats =
                Put(stats.jail_stats, LastFed.jail,
                    [Get(stats.jail_stats, LastFed.jail, NewJail)
                        EXCEPT !.unbans = @ + 1])]_vars

\* C12 witness: two bans of an address and then its unban have been recorded,
\* and the address still has its two bans and its jail
C12_Witness ==
    /\ Len(hist.fed) = 3
    /\ \A i \in 1..3 : EventOf(hist.fed[i]).ip = "1.2.3.4"
                         /\ EventOf(hist.fed[i]).jail = "nginx"
    /\ EventOf(hist.fed[1]).kind = "Ban" /\ EventOf(hist.fed[2]).kind = "Ban"
    /\ EventOf(hist.fed[3]).kind = "Unban"
    /\ stats.banned_ips["1.2.3.4"] = 2
    /\ stats.ip_jail_map["1.2.3.4"] = {"nginx"}

\* the number of lines fed so far whose event satisfies P
Count(P(_)) ==
    Cardinality({i \in 1..Len(hist.fed) : P(EventOf(hist.fed[i]))})

CountKind(kind) == Count(LAMBDA e : e.kind = kind)

CountJail(kind, jail) == Count(LAMBDA e : e.kind = kind /\ e.jail = jail)

CountBans(ip) == Count(LAMBDA e : e.kind = "Ban" /\ e.ip = ip)

\* C13: after any sequence of ban, unban and detection lines, in any order,
\* the three counters equal the number of events of each kind, jail_stats
\* holds for each jail the number of its events of each kind, banned_ips
\* holds for each address the number of its bans, and banned_ips has one key
\* for each address that was banned.
C13_CountsEqualEventsFed ==
    /\ stats.ban_count = CountKind("Ban")
    /\ stats.unban_count = CountKind("Unban")
    /\ stats.find_count = CountKind("Found")
    /\ \A j \in Jails :
          /\ Get(stats.jail_stats, j, NewJail) =
                [bans |-> CountJail("Ban", j), unbans |-> CountJail("Unban", j),
                 finds |-> CountJail("Found", j)]
          /\ j \in DOMAIN stats.jail_stats <=>
                \E k \in Kinds : CountJail(k, j) > 0
    /\ \A a \in IPs : Get(stats.banned_ips, a, 0) = CountBans(a)
    /\ DOMAIN stats.banned_ips = {a \in IPs : CountBans(a) > 0}

\* C13 witness: Ban, Unban, Ban of 1.2.3.4 in sshd have been fed: two bans,
\* one unban, the address counted twice, the jail with 2, 1 and 0
C13_Witness ==
    /\ Len(hist.fed) = 3
    /\ \A i \in 1..3 : EventOf(hist.fed[i]).ip = "1.2.3.4"
                         /\ EventOf(hist.fed[i]).jail = "sshd"
    /\ EventOf(hist.fed[1]).kind = "Ban" /\ EventOf(hist.fed[2]).kind = "Unban"
    /\ EventOf(hist.fed[3]).kind = "Ban"
    /\ stats.ban_count = 2 /\ stats.unban_count = 1
    /\ stats.banned_ips["1.2.3.4"] = 2
    /\ stats.jail_stats["sshd"] = [bans |-> 2, unbans |-> 1, finds |-> 0]

LastLine == hist'.fed[Len(hist'.fed)]

\* C14: a line that carries the text of no event leaves every field of the
\* store as it was; a line that carries one makes exactly one record call,
\* that of the first of Ban, Unban, Found it carries.
C14_UnmatchedLineLeavesStore ==
    [][FeedsLine =>
          /\ (\A k \in Kinds : ~Carries(LastLine, k)) => stats' = stats
          /\ LastFed.kind = "Ban" =>
                stats' = record_ban(stats, LastFed.timestamp, LastFed.jail,
                                    LastFed.ip)
          /\ LastFed.kind = "Unban" =>
                stats' = record_unban(stats, LastFed.timestamp, LastFed.jail,
                                      LastFed.ip)
          /\ LastFed.kind = "Found" =>
                stats' = record_find(stats, LastFed.timestamp, LastFed.jail,
                                     LastFed.ip)]_vars

\* C14 witness: a line no recogniser matches and a line that carries an
\* unban and then a ban have been fed, and the store holds the one ban
C14_Witness ==
    /\ Len(hist.fed) = 2
    /\ \A k \in Kinds : ~Carries(hist.fed[1], k)
    /\ Carries(hist.fed[2], "Unban") /\ Carries(hist.fed[2], "Ban")
    /\ stats.ban_count = 1 /\ stats.unban_count = 0 /\ stats.find_count = 0

\* C15: a ban whose timestamp does not parse is counted in ban_count, in
\* banned_ips, in the bans of its jail and in ip_jail_map, and only its bucket
\* of hourly_stats is left out; so the buckets of hourly_stats sum to at most
\* ban_count, and to ban_count exactly when every ban fed had a timestamp that
\* parses.
C15_UnparseableBanStillCounted ==
    /\ [](SumValues(stats.hourly_stats) <= stats.ban_count)
    /\ [](SumValues(stats.hourly_stats) = stats.ban_count <=>
            Count(LAMBDA e : e.kind = "Ban" /\ ~ParseOk(e.timestamp)) = 0)
    /\ [][(FeedsLine /\ LastFed.kind = "Ban" /\ ~ParseOk(LastFed.timestamp)) =>
            /\ stats'.ban_count = stats.ban_count + 1
            /\ stats'.banned_ips =
                  Put(stats.banned_ips, LastFed.ip,
                      Get(stats.banned_ips, LastFed.ip, 0) + 1)
            /\ stats'.jail_stats =
                  Put(stats.jail_stats, LastFed.jail,
                      [Get(stats.jail_stats, LastFed.jail, NewJail)
                          EXCEPT !.bans = @ + 1])
            /\ stats'.ip_jail_map =
                  Put(stats.ip_jail_map, LastFed.ip,
                      Get(stats.ip_jail_map, LastFed.ip, {}) \cup {LastFed.jail})
            /\ stats'.hourly_stats = stats.hourly_stats]_vars

\* C15 witness: of two bans of one address, the second with a month 13, both
\* are counted and one has its bucket
C15_Witness ==
    /\ Len(hist.fed) = 2
    /\ EventOf(hist.fed[1]).kind = "Ban" /\ ParseOk(EventOf(hist.fed[1]).timestamp)
    /\ EventOf(hist.fed[2]).kind = "Ban" /\ ~ParseOk(EventOf(hist.fed[2]).timestamp)
    /\ EventOf(hist.fed[1]).ip = EventOf(hist.fed[2]).ip
    /\ stats.ban_count = 2 /\ SumValues(stats.hourly_stats) = 1
    /\ SumValues(stats.banned_ips) = 2

\* C16: between operations of the store, every address that is a key of
\* banned_ips is a key of ip_jail_map with at least one jail, and every jail
\* in its set has at least one ban in jail_stats.
C16_BannedAddressHasJails ==
    \A a \in DOMAIN stats.banned_ips :
        /\ a \in DOMAIN stats.ip_jail_map
        /\ stats.ip_jail_map[a] # {}
        /\ \A j \in stats.ip_jail_map[a] :
              j \in DOMAIN stats.jail_stats /\ stats.jail_stats[j].bans >= 1

\* C16 witness: one address has been banned by two jails, and a detection
\* of another address has been recorded
C16_Witness ==
    /\ DOMAIN stats.banned_ips = {"5.6.7.8"}
    /\ stats.ip_jail_map["5.6.7.8"] = Jails
    /\ stats.find_count = 1

\* C17: the file export_to_csv writes, whatever the tailer's record calls are
\* doing meanwhile, has one row for each key of banned_ips, in descending
\* order of count, each with the count and the jails of its address, and the
\* counts of its rows sum to ban_count as it is when the file is written.
C17_CsvIsOneSnapshot ==
    [][M_CsvWrite =>
          LET rows == hist'.csv
          IN  /\ Len(rows) = Cardinality(DOMAIN stats.banned_ips)
              /\ {rows[i][1] : i \in 1..Len(rows)} = DOMAIN stats.banned_ips
              /\ \A i \in 1..(Len(rows) - 1) : rows[i][2] >= rows[i + 1][2]
              /\ \A i \in 1..Len(rows) :
                    /\ rows[i][2] = stats.banned_ips[rows[i][1]]
                    /\ rows[i][3] = stats.ip_jail_map[rows[i][1]]
              /\ SumPairs(rows) = stats.ban_count]_vars

\* C17 witness: the handler has written a file of two rows, an address with
\* two bans before an address with one
C17_Witness ==
    /\ Len(hist.csv) = 2
    /\ hist.csv[1][2] = 2 /\ hist.csv[2][2] = 1
    /\ stats.ban_count = 3
    /\ Depth = 2 /\ Top.site = "h_chart"

\* a step of one of the read operations of the store
ReadOperation ==
    \/ M_Acquire \/ M_SummaryTop \/ M_SummaryReturn \/ M_JsonCopy
    \/ M_JsonWrite \/ M_CsvRows \/ M_CsvWrite \/ M_Chart

\* C18: get_summary, export_to_json, export_to_csv and print_ascii_chart
\* leave the store as it was: no counter changes and no key of banned_ips,
\* jail_stats, hourly_stats or ip_jail_map is made or removed.
C18_ReadsLeaveStore ==
    [][ReadOperation => stats' = stats]_vars

\* C18 witness: the handler has run the four read operations over a store
\* that holds a ban, and has written it to the exports
C18_Witness ==
    /\ Depth = 2 /\ Top.site = "h_exit"
    /\ stats.ban_count >= 1 /\ DOMAIN stats.hourly_stats # {}
    /\ Len(hist.csv) >= 1 /\ summary.total_bans >= 1

\* the line, as passed to _process_line, is a whole line of the log
Whole(line) ==
    /\ Len(line) = 2
    /\ line[1].part = "head" /\ line[2].part = "tail"
    /\ line[1].id = line[2].id

\* C19: the tailer passes only complete lines to _process_line: the first
\* part of a line whose terminator is not written yet is not processed.
C19_OnlyCompleteLinesFed ==
    \A i \in 1..Len(hist.fed) : Whole(hist.fed[i])

\* a call of stop() has returned: a frame of the main thread is past it
StopReturned ==
    \E d \in 1..Depth :
        mstack[d].site \in (HandlerSites \cup FinallySites) \ {"h_stop", "fin_stop"}

\* C20: once stop() has returned the tailer makes no record call: no step
\* changes the store, so what the shutdown exports is the final store.
C20_NoRecordAfterStop ==
    [][StopReturned => stats' = stats]_vars

\* C21: while the log is only appended to, no line is passed to
\* _process_line twice, an iteration that ends in a read error and is
\* retried included: no two of the lines fed are the same line of the log.
C21_NoLineProcessedTwice ==
    \A i, j \in 1..Len(hist.fed) :
        i # j => LineId(hist.fed[i]) # LineId(hist.fed[j])

====
